---- MODULE Spec2Model ----
(***************************************************************************)
(* Model of code_include/source_code.py: the pipeline that resolves a      *)
(* (directive, namespace) pair through the intersphinx inventory to the    *)
(* text of the source code published in a Sphinx "_modules" page.          *)
(*                                                                         *)
(* Python str values that the code slices, splits, joins or compares are   *)
(* sequences of one-character strings; dictionary keys that the code only  *)
(* looks up (directives, namespaces) are plain strings.                    *)
(***************************************************************************)
EXTENDS Integers, Sequences, FiniteSets, TLC

VARIABLES
  APPLICATION,  \* the module global: the registered Sphinx application
  memo,         \* the cache of helper.memoize around _get_all_intersphinx_roots
  reads,        \* how many times intersphinx_mapping has been read
  ret,          \* the call in progress or just finished, and its outcome
  seen          \* history: every (url, root) a call of get_source_code resolved

vars == <<APPLICATION, memo, reads, ret, seen>>

(* ---------------------------------------------------------------- bounds *)
\* longest dotted name handed to _get_module_tag by a direct call
MaxTokens == 4
\* cap on the counter of reads of the configuration source
MaxReads == 3

(* ------------------------------------------------------- Python builtins *)
Max(a, b) == IF a >= b THEN a ELSE b

\* ord() of the characters the model uses
Ord(c) ==
  CASE c = "#" -> 35 [] c = "." -> 46 [] c = "/" -> 47 [] c = "1" -> 49
    [] c = ":" -> 58 [] c = "C" -> 67 [] c = "P" -> 80 [] c = "_" -> 95
    [] c = "a" -> 97 [] c = "c" -> 99 [] c = "d" -> 100 [] c = "e" -> 101
    [] c = "f" -> 102 [] c = "g" -> 103 [] c = "h" -> 104 [] c = "k" -> 107
    [] c = "l" -> 108 [] c = "m" -> 109 [] c = "n" -> 110 [] c = "o" -> 111
    [] c = "p" -> 112 [] c = "q" -> 113 [] c = "s" -> 115 [] c = "t" -> 116
    [] c = "u" -> 117 [] c = "z" -> 122

\* str.__lt__: lexicographic comparison by code point
RECURSIVE StrLess(_, _)
StrLess(s, t) ==
  IF t = <<>> THEN FALSE
  ELSE IF s = <<>> THEN TRUE
  ELSE IF Ord(Head(s)) # Ord(Head(t)) THEN Ord(Head(s)) < Ord(Head(t))
  ELSE StrLess(Tail(s), Tail(t))

\* sorted(iterable of str)
RECURSIVE Sorted(_)
Sorted(S) ==
  IF S = {} THEN <<>>
  ELSE LET m == CHOOSE x \in S : \A y \in S : y = x \/ StrLess(x, y)
       IN  <<m>> \o Sorted(S \ {m})

\* str.startswith
StartsWith(s, prefix) ==
  /\ Len(prefix) <= Len(s)
  /\ SubSeq(s, 1, Len(prefix)) = prefix

\* str.split(sep) for a one-character separator: every occurrence splits
RECURSIVE Split(_, _)
Split(s, sep) ==
  IF \A i \in 1..Len(s) : s[i] # sep THEN <<s>>
  ELSE LET i == CHOOSE j \in 1..Len(s) :
                  /\ s[j] = sep
                  /\ \A k \in 1..(j - 1) : s[k] # sep
       IN  <<SubSeq(s, 1, i - 1)>> \o Split(SubSeq(s, i + 1, Len(s)), sep)

\* sep.join(parts)
RECURSIVE Join(_, _)
Join(parts, sep) ==
  IF parts = <<>> THEN <<>>
  ELSE IF Len(parts) = 1 THEN parts[1]
  ELSE parts[1] \o <<sep>> \o Join(Tail(parts), sep)

\* seq[:-k] and seq[-k:] for k > 0
SliceButLast(seq, k) == SubSeq(seq, 1, Max(Len(seq) - k, 0))
SliceLast(seq, k) == SubSeq(seq, Max(Len(seq) - k, 0) + 1, Len(seq))

\* os.path.isabs on POSIX
IsAbs(path) == StartsWith(path, <<"/">>)

(* ----------------------------------------------------- _get_module_tag *)
MODULES_DIR == <<"_", "m", "o", "d", "u", "l", "e", "s", "/">>
HTML_EXT == <<".", "h", "t", "m", "l">>
PY_METHOD == "py:method"

\* variant: methods are cut like every other directive
ModuleTagOneRule(namespace, directive) ==
  LET tokens == Split(namespace, ".")
  IN  <<MODULES_DIR \o Join(SliceButLast(tokens, 1), "/") \o HTML_EXT,
        tokens[Len(tokens)]>>

_get_module_tag(namespace, directive) ==
  LET tokens == Split(namespace, ".")
  IN  IF directive \in {PY_METHOD}
      THEN <<MODULES_DIR \o Join(SliceButLast(tokens, 2), "/") \o HTML_EXT,
             Join(SliceLast(tokens, 2), ".")>>
      ELSE <<MODULES_DIR \o Join(SliceButLast(tokens, 1), "/") \o HTML_EXT,
             tokens[Len(tokens)]>>

(* ------------------------------------------------- results of a call *)
Return(v) ==
  [outcome |-> "return", exc |-> "", msg |-> "", payload |-> <<>>, value |-> v]

Raise(exc, msg, payload) ==
  [outcome |-> "raise", exc |-> exc, msg |-> msg, payload |-> payload,
   value |-> <<>>]

(* --------------------------------------------- pages as bs4 parses them *)
\* a NavigableString
Text(s) ==
  [type |-> "text", name |-> "", hasId |-> FALSE, id |-> <<>>, cls |-> "",
   kids |-> <<>>, s |-> s]

\* a Tag with its name, optional id attribute, class attribute and children
Tag(name, hasId, id, cls, kids) ==
  [type |-> "tag", name |-> name, hasId |-> hasId, id |-> id, cls |-> cls,
   kids |-> kids, s |-> <<>>]

VIEWCODE_BACK == "viewcode-back"

\* soup.find_all("a", {"class": "viewcode-back"})
IsBackLink(n) == n.type = "tag" /\ n.name = "a" /\ n.cls = VIEWCODE_BACK

\* variant: the back-links stay in the tree
DecomposeNothing(nodes) == nodes

\* the tree after div.decompose() on every back-link
RECURSIVE Decompose(_)
Decompose(nodes) ==
  IF nodes = <<>> THEN <<>>
  ELSE LET n == Head(nodes)
       IN  IF IsBackLink(n) THEN Decompose(Tail(nodes))
           ELSE <<[n EXCEPT !.kids = Decompose(n.kids)]>>
                  \o Decompose(Tail(nodes))

\* every <div id=tag> of the tree, in document order
RECURSIVE FindAllDiv(_, _)
FindAllDiv(nodes, tag) ==
  IF nodes = <<>> THEN <<>>
  ELSE LET n == Head(nodes)
           here == IF n.type = "tag" /\ n.name = "div" /\ n.hasId /\ n.id = tag
                   THEN <<n>> ELSE <<>>
       IN  here \o FindAllDiv(n.kids, tag) \o FindAllDiv(Tail(nodes), tag)

\* node.getText(): the strings of the subtree, concatenated
RECURSIVE GetText(_)
RECURSIVE GetTextAll(_)
GetText(n) == IF n.type = "text" THEN n.s ELSE GetTextAll(n.kids)
GetTextAll(nodes) ==
  IF nodes = <<>> THEN <<>> ELSE GetText(Head(nodes)) \o GetTextAll(Tail(nodes))

(* ------------------------------------------------ the documents explored *)
\* identifiers that make up the dotted names
pkg == <<"p", "k", "g">>
mod == <<"m", "o", "d">>
Cls == <<"C", "l", "s">>
meth == <<"m", "e", "t", "h">>
func == <<"f", "u", "n", "c">>

ClsMeth == Join(<<Cls, meth>>, ".")
code == <<"c", "o", "d", "e">>
back == <<"b", "a", "c", "k">>

\* the documents that can be read, by name
PageNames ==
  {"example", "nested", "inside", "absent", "span-first", "span-only",
   "kept", "empty"}

Document(page) ==
  CASE page = "example" ->
         \* the page of the specification's example
         <<Tag("div", TRUE, ClsMeth, "", <<Text(code)>>),
           Tag("a", FALSE, <<>>, VIEWCODE_BACK, <<Text(back)>>)>>
    [] page = "nested" ->
         \* a back-link inside the target
         <<Tag("div", TRUE, ClsMeth, "",
               <<Text(<<"c", "o">>),
                 Tag("a", FALSE, <<>>, VIEWCODE_BACK, <<Text(back)>>),
                 Text(<<"d", "e">>)>>)>>
    [] page = "inside" ->
         \* the target inside a back-link
         <<Tag("a", FALSE, <<>>, VIEWCODE_BACK,
               <<Tag("div", TRUE, ClsMeth, "", <<Text(code)>>)>>)>>
    [] page = "absent" ->
         \* no element with the id
         <<Tag("div", TRUE, <<"x">>, "", <<Text(code)>>)>>
    [] page = "span-first" ->
         \* the id on an element that is not a div, then on a nested div
         <<Tag("span", TRUE, ClsMeth, "", <<Text(<<"n", "o">>)>>),
           Tag("div", FALSE, <<>>, "",
               <<Tag("div", TRUE, ClsMeth, "",
                     <<Text(code),
                       Tag("a", FALSE, <<>>, VIEWCODE_BACK,
                           <<Text(back)>>)>>)>>)>>
    [] page = "span-only" ->
         \* the id only on an element that is not a div
         <<Tag("span", TRUE, ClsMeth, "", <<Text(code)>>)>>
    [] page = "kept" ->
         \* a plain link and a div of the back-link class stay
         <<Tag("div", TRUE, func, "",
               <<Text(code), Tag("a", FALSE, <<>>, "", <<Text(<<"l">>)>>),
                 Tag("div", FALSE, <<>>, VIEWCODE_BACK, <<Text(<<"k">>)>>)>>),
           Tag("a", FALSE, <<>>, VIEWCODE_BACK, <<Text(back)>>)>>
    [] page = "empty" ->
         \* an empty target
         <<Tag("div", TRUE, ClsMeth, "", <<>>)>>

(* ---------------------------------------------------- _get_source_code *)
\* what the file system and the network answer for one call:
\*   isfile   - os.path.isfile(uri)
\*   net      - "ok" or the reason urllib2.urlopen(uri).read() raised
\*   page     - the name of the document read when the read succeeds
NetFailures == {"connection", "timeout", "status", "malformed"}

\* variant: only a failed connection is caught; other failures of the
\* retrieval leave an empty document
ReadContentsNarrow(uri, world) ==
  IF IsAbs(uri)
  THEN IF ~world.isfile THEN Raise("NotFoundFile", "", uri)
       ELSE Return(Document(world.page))
  ELSE IF world.net = "connection" THEN Raise("NotFoundUrl", "", uri)
       ELSE IF world.net # "ok" THEN Return(<<>>)
       ELSE Return(Document(world.page))

\* lines 124-134: read the page from disk or from the network
ReadContents(uri, world) ==
  IF IsAbs(uri)
  THEN IF ~world.isfile THEN Raise("NotFoundFile", "", uri)
       ELSE Return(Document(world.page))
  ELSE IF world.net # "ok" THEN Raise("NotFoundUrl", "", uri)
       ELSE Return(Document(world.page))

\* variant: a missing div gives the empty text
ExtractTextBlank(contents, tag) ==
  LET soup == Decompose(contents)
      found == FindAllDiv(soup, tag)
  IN  IF found = <<>> THEN Return(<<>>) ELSE Return(GetText(found[1]))

\* lines 136-143: strip the back-links, find the div, return its text
ExtractText(contents, tag) ==
  LET soup == Decompose(contents)
      found == FindAllDiv(soup, tag)
  IN  IF found = <<>> THEN Raise("AttributeError", "NoneType.getText", <<>>)
      ELSE Return(GetText(found[1]))

_get_source_code(uri, tag, world) ==
  LET contents == ReadContents(uri, world)
  IN  IF contents.outcome = "raise" THEN contents
      ELSE ExtractText(contents.value, tag)

(* ------------------------------------------------------ APPLICATION *)
\* line 15: no application registered
NoApp ==
  [present |-> FALSE, hasInventory |-> FALSE, inventory |-> [k \in {} |-> 0],
   hasMapping |-> FALSE, mapping |-> {}]

\* a registered application: builder.env.intersphinx_inventory and
\* config.intersphinx_mapping, each of which intersphinx may not have set
App(hasInventory, inventory, hasMapping, mapping) ==
  [present |-> TRUE, hasInventory |-> hasInventory, inventory |-> inventory,
   hasMapping |-> hasMapping, mapping |-> mapping]

\* one item of intersphinx_mapping: the value is a str (old format,
\* uri -> inventory file) or a sequence (new format, name -> (uri, inventory))
StrItem(key, str) == [key |-> key, isStr |-> TRUE, str |-> str, seq |-> <<>>]
SeqItem(key, seq) == [key |-> key, isStr |-> FALSE, str |-> <<>>, seq |-> seq]

NOT_CONFIGURED == "sphinx.ext.intersphinx was not configured properly."

(* ---------------------------------------- _get_all_intersphinx_roots *)
\* variant: takes the last element of a sequence value
ItemRootLast(item) == IF ~item.isStr THEN item.seq[Len(item.seq)] ELSE item.key

\* lines 29-32: the root one mapping item contributes
ItemRoot(item) == IF ~item.isStr THEN item.seq[1] ELSE item.key

\* lines 19-34, the undecorated function: outcome and the set built
ComputeRoots(app) ==
  IF ~app.present \/ ~app.hasMapping
  THEN Raise("EnvironmentError", NOT_CONFIGURED, <<>>)
  ELSE Return({ItemRoot(item) : item \in app.mapping})

\* the orders in which one set object can be iterated
Orders(S) ==
  {f \in [1..Cardinality(S) -> S] : \A i, j \in 1..Cardinality(S) :
                                       f[i] = f[j] => i = j}

Range(f) == {f[i] : i \in DOMAIN f}

\* helper.memoize around the function: the first value returned is kept and
\* handed out again; a call that raises stores nothing.  The kept set is
\* held with the iteration order `order` it happens to have.
\* Gives the outcome, the cache afterwards and the number of reads made.
Memoized(app, m, order) ==
  IF m.set THEN [res |-> Return(m.value), memo |-> m, reads |-> 0]
  ELSE LET rv == ComputeRoots(app)
       IN  IF rv.outcome = "raise" THEN [res |-> rv, memo |-> m, reads |-> 0]
           ELSE [res |-> Return(order),
                 memo |-> [set |-> TRUE, value |-> order], reads |-> 1]

\* variant: the roots are built anew by every call
AvailableRootsFresh(app, m, order) ==
  LET rv == ComputeRoots(app)
  IN  IF rv.outcome = "raise" THEN [res |-> rv, memo |-> m, reads |-> 0]
      ELSE [res |-> Return(order), memo |-> [set |-> TRUE, value |-> order],
            reads |-> 1]

\* line 201: available_roots = _get_all_intersphinx_roots()
AvailableRoots(app, m, order) == Memoized(app, m, order)

(* ---------------------------------------------------- _get_app_inventory *)
_get_app_inventory(app) ==
  IF ~app.present THEN Return([k \in {} |-> 0])
  ELSE IF app.hasInventory THEN Return(app.inventory)
  ELSE Raise("EnvironmentError", NOT_CONFIGURED, <<>>)

(* ------------------------------------------------ _get_project_url_root *)
\* roots is iterated in order; "" when nothing matches
RECURSIVE _get_project_url_root(_, _)
_get_project_url_root(uri, roots) ==
  IF roots = <<>> THEN <<>>
  ELSE IF StartsWith(uri, Head(roots)) THEN Head(roots)
  ELSE _get_project_url_root(uri, Tail(roots))

(* ------------------------------------------------------ get_source_code *)
\* the plain-string dictionary keys of the model, in str order
KeyOrder ==
  <<"func", "index", "missing", "orphan", "pkg.mod.Cls.meth", "pkg.mod.func",
    "pq.Cls.meth", "py:attribute", "py:class", "py:function", "py:method",
    "std:doc", "two.hash", "web.Cls.meth">>

\* sorted(dict) for a dictionary with plain-string keys
SortedKeys(S) == SelectSeq(KeyOrder, LAMBDA k : k \in S)

\* how far one call of get_source_code got and what it handed on
NoTrace ==
  [lookups |-> 0, hasUri |-> FALSE, uri |-> <<>>,
   split |-> FALSE, url |-> <<>>, anchor |-> <<>>,
   computed |-> FALSE, config |-> {},
   resolved |-> FALSE, roots |-> <<>>, root |-> <<>>,
   built |-> FALSE, module_url |-> <<>>, tag |-> <<>>,
   fetched |-> FALSE, world |-> <<>>]

NO_APPLICATION ==
  "No application could be found. Cannot render this node. Did intersphinx have a chance to run?"

\* variant: an empty inventory is handed on to the lookups
CheckCacheSkipped(cache) == Return(cache)

\* lines 177-180
CheckCache(cache) ==
  IF DOMAIN cache = {} THEN Raise("RuntimeError", NO_APPLICATION, <<>>)
  ELSE Return(cache)

\* lines 182-189
LookupDirective(cache, directive) ==
  IF directive \in DOMAIN cache THEN Return(cache[directive])
  ELSE Raise("MissingDirective", "Directive was invalid",
             SortedKeys(DOMAIN cache))

\* variant: binds the display name, the fourth field, to uri
TupleUriShifted(entry) == entry[4]

\* the field of the inventory tuple that `_, _, uri, _ = ...` binds to uri
TupleUri(entry) == entry[3]

\* lines 191-198
LookupNamespace(typed_directive_data, namespace) ==
  IF namespace \in DOMAIN typed_directive_data
  THEN Return(TupleUri(typed_directive_data[namespace]))
  ELSE Raise("MissingNamespace", "Namespace was invalid",
             SortedKeys(DOMAIN typed_directive_data))

\* variant: the two halves are bound the other way round
UnpackUriSwapped(uri) ==
  LET parts == Split(uri, "#")
  IN  IF Len(parts) = 2 THEN Return(<<parts[2], parts[1]>>)
      ELSE Raise("ValueError", "unpack", <<>>)

\* line 200: url, tag = uri.split("#")
UnpackUri(uri) ==
  LET parts == Split(uri, "#")
  IN  IF Len(parts) = 2 THEN Return(parts)
      ELSE IF Len(parts) > 2
      THEN Raise("ValueError", "too many values to unpack", <<>>)
      ELSE Raise("ValueError", "need more than 1 value to unpack", <<>>)

URL_NOT_IN_PROJECTS == "URL isn't in any of the available projects"

\* lines 202-209
ResolveRoot(url, available_roots) ==
  LET root == _get_project_url_root(url, available_roots)
  IN  IF root = <<>>
      THEN Raise("EnvironmentError", URL_NOT_IN_PROJECTS,
                 Sorted(Range(available_roots)))
      ELSE Return(root)

\* line 212
ModuleUrl(root, module_path) == root \o <<"/">> \o module_path

Out(res, trace, m, n) == [res |-> res, trace |-> trace, memo |-> m, reads |-> n]

\* lines 175-212: from the arguments to the page and the id to read in it.
\* order: the iteration order of the root set if this call builds it.
\* Gives the outcome, the trace, the memoize cache afterwards and the number
\* of reads of the configuration.
Locate(app, m, directive, namespace, order) ==
  LET inv == _get_app_inventory(app)
      checked == IF inv.outcome = "raise" THEN inv ELSE CheckCache(inv.value)
  IN
  IF checked.outcome = "raise" THEN Out(checked, NoTrace, m, 0) ELSE
  LET typed == LookupDirective(checked.value, directive)
      t1 == [NoTrace EXCEPT !.lookups = 1]
  IN
  IF typed.outcome = "raise" THEN Out(typed, t1, m, 0) ELSE
  LET found == LookupNamespace(typed.value, namespace)
      t2 == [t1 EXCEPT !.lookups = 2]
  IN
  IF found.outcome = "raise" THEN Out(found, t2, m, 0) ELSE
  LET uri == found.value
      t3 == [t2 EXCEPT !.hasUri = TRUE, !.uri = uri]
      parts == UnpackUri(uri)
  IN
  IF parts.outcome = "raise" THEN Out(parts, t3, m, 0) ELSE
  LET url == parts.value[1]
      t4 == [t3 EXCEPT !.split = TRUE, !.url = url, !.anchor = parts.value[2]]
      avail == AvailableRoots(app, m, order)
  IN
  IF avail.res.outcome = "raise" THEN Out(avail.res, t4, avail.memo, avail.reads)
  ELSE
  LET available_roots == avail.res.value
      root == ResolveRoot(url, available_roots)
      t5 == [t4 EXCEPT !.computed = (avail.reads > 0),
                       !.config = IF avail.reads > 0 THEN app.mapping ELSE {},
                       !.resolved = TRUE, !.roots = available_roots,
                       !.root = root.value]
  IN
  IF root.outcome = "raise" THEN Out(root, t5, avail.memo, avail.reads) ELSE
  LET mt == _get_module_tag(parts.value[2], directive)
      module_url == ModuleUrl(root.value, mt[1])
      t6 == [t5 EXCEPT !.built = TRUE, !.module_url = module_url, !.tag = mt[2]]
  IN  Out(Return(<<module_url, mt[2]>>), t6, avail.memo, avail.reads)

\* line 214 after lines 175-212.  world: what the file system or the network
\* answers when the page is read.
Fetch(located, world) ==
  IF ~located.trace.built THEN located
  ELSE [located EXCEPT
          !.res = _get_source_code(located.res.value[1], located.res.value[2],
                                   world),
          !.trace = [located.trace EXCEPT !.fetched = TRUE, !.world = world]]

get_source_code(app, m, directive, namespace, order, world) ==
  Fetch(Locate(app, m, directive, namespace, order), world)

(* ------------------------------------------------ the values explored *)

\* project roots: a local tree, a tree whose path extends it, a web site
LocalRoot == <<"/", "p">>
LongRoot == <<"/", "p", "q">>
WebRoot == <<"h", ":">>
InvFile == <<"i", "n", "v">>

Page(root) == root \o <<"/", "d">>
WithAnchor(base, anchor) == base \o <<"#">> \o anchor
Entry(uri) == <<<<"P">>, <<"1">>, uri, <<"-">>>>

MethAnchor == Join(<<pkg, mod, Cls, meth>>, ".")
FuncAnchor == Join(<<pkg, mod, func>>, ".")

InvRich ==
  [d \in {"py:method", "py:function", "py:class", "std:doc"} |->
     CASE d = "py:method" ->
            [n \in {"pkg.mod.Cls.meth", "web.Cls.meth", "pq.Cls.meth",
                    "two.hash", "orphan"} |->
               CASE n = "pkg.mod.Cls.meth" ->
                      Entry(WithAnchor(Page(LocalRoot), MethAnchor))
                 [] n = "web.Cls.meth" ->
                      Entry(WithAnchor(Page(WebRoot), MethAnchor))
                 [] n = "pq.Cls.meth" ->
                      Entry(WithAnchor(Page(LongRoot), MethAnchor))
                 [] n = "two.hash" ->
                      Entry(WithAnchor(WithAnchor(Page(LocalRoot), pkg),
                                       Join(<<mod, Cls, meth>>, ".")))
                 [] n = "orphan" ->
                      Entry(WithAnchor(Page(<<"/", "z">>), MethAnchor))]
       [] d = "py:function" ->
            [n \in {"pkg.mod.func", "func"} |->
               CASE n = "pkg.mod.func" ->
                      Entry(WithAnchor(Page(LocalRoot), FuncAnchor))
                 [] n = "func" -> Entry(WithAnchor(Page(WebRoot), func))]
       [] d = "py:class" -> [n \in {} |-> 0]
       [] d = "std:doc" -> [n \in {"index"} |-> Entry(Page(LocalRoot))]]

InvSmall ==
  [d \in {"py:function"} |->
     [n \in {"pkg.mod.func"} |-> Entry(WithAnchor(Page(LocalRoot), FuncAnchor))]]

Inventories == {[k \in {} |-> 0], InvSmall, InvRich}

Mappings ==
  { {},
    {SeqItem(<<"p">>, <<LocalRoot, InvFile>>),
     SeqItem(<<"h">>, <<WebRoot, InvFile>>)},
    {StrItem(LocalRoot, InvFile)},
    {StrItem(WebRoot, InvFile), SeqItem(<<"p">>, <<LocalRoot, InvFile>>)},
    {SeqItem(<<"p">>, <<LocalRoot, InvFile>>),
     SeqItem(<<"q">>, <<LongRoot, InvFile>>)},
    {SeqItem(<<"e">>, <<<<>>, InvFile>>),
     SeqItem(<<"p">>, <<LocalRoot, InvFile>>)} }

SomeMapping == {SeqItem(<<"p">>, <<LocalRoot, InvFile>>)}

Apps ==
  {NoApp}
    \cup {App(TRUE, InvRich, TRUE, mp) : mp \in Mappings}
    \cup {App(TRUE, inv, TRUE, SomeMapping) : inv \in Inventories}
    \cup {App(FALSE, [k \in {} |-> 0], TRUE, SomeMapping)}
    \cup {App(TRUE, InvRich, FALSE, {})}

Directives == {"py:method", "py:function", "py:class", "py:attribute", "std:doc"}

Names ==
  {"pkg.mod.Cls.meth", "web.Cls.meth", "pq.Cls.meth", "two.hash", "orphan",
   "pkg.mod.func", "func", "index", "missing"}

Worlds ==
  [isfile : {TRUE}, net : {"ok"}, page : PageNames]
    \cup [isfile : {FALSE}, net : NetFailures, page : {""}]

(* ------------------------------------------------------ the state machine *)
NoMemo == [set |-> FALSE, value |-> <<>>]

Idle ==
  [fn |-> "none", directive |-> "", namespace |-> "", res |-> Return(<<>>),
   trace |-> NoTrace]

Init ==
  /\ APPLICATION = NoApp
  /\ memo = NoMemo
  /\ reads = 0
  /\ ret = Idle
  /\ seen = {}

\* between two calls the extension's setup and the Sphinx build (re)assign
\* the application, its inventory and its configuration
SetApplication(app) ==
  /\ ret = Idle
  /\ APPLICATION' = app
  /\ UNCHANGED <<memo, reads, ret, seen>>

\* the iteration orders the root set can have if a call builds it now
OrdersNow ==
  LET rv == ComputeRoots(APPLICATION)
  IN  IF rv.outcome = "raise" THEN {<<>>} ELSE Orders(rv.value)

NoWorld == [isfile |-> FALSE, net |-> "connection", page |-> ""]

\* a call of get_source_code(directive, namespace), start to end
GetSourceCode(directive, namespace) ==
  /\ ret = Idle
  /\ \E order \in OrdersNow :
       LET located == Locate(APPLICATION, memo, directive, namespace, order)
       IN  \E world \in IF located.trace.built THEN Worlds ELSE {NoWorld} :
             LET r == get_source_code(APPLICATION, memo, directive, namespace,
                                      order, world)
             IN  /\ reads + r.reads <= MaxReads
                 /\ memo' = r.memo
                 /\ reads' = reads + r.reads
                 /\ ret' = [fn |-> "get_source_code", directive |-> directive,
                            namespace |-> namespace, res |-> r.res,
                            trace |-> r.trace]
                 /\ seen' = IF r.trace.resolved
                            THEN seen \cup {<<r.trace.url, r.trace.root>>}
                            ELSE seen
                 /\ UNCHANGED APPLICATION

\* a call of _get_all_intersphinx_roots(), start to end
GetAllIntersphinxRoots ==
  /\ ret = Idle
  /\ \E order \in OrdersNow :
       LET r == Memoized(APPLICATION, memo, order)
       IN  /\ reads + r.reads <= MaxReads
           /\ memo' = r.memo
           /\ reads' = reads + r.reads
           /\ ret' = [fn |-> "_get_all_intersphinx_roots", directive |-> "",
                      namespace |-> "", res |-> r.res,
                      trace |-> [NoTrace EXCEPT
                                   !.computed = (r.reads > 0),
                                   !.config = IF r.reads > 0
                                              THEN APPLICATION.mapping ELSE {}]]
           /\ UNCHANGED <<APPLICATION, seen>>

\* the caller has the outcome (the value or the exception) of the call
Done ==
  /\ ret # Idle
  /\ ret' = Idle
  /\ UNCHANGED <<APPLICATION, memo, reads, seen>>

Next ==
  \/ \E app \in Apps : SetApplication(app)
  \/ \E directive \in Directives, namespace \in Names :
       GetSourceCode(directive, namespace)
  \/ GetAllIntersphinxRoots
  \/ Done

Spec == Init /\ [][Next]_vars

(* ------------------------------------- _get_module_tag called on its own *)
Tokens == {pkg, mod, Cls, meth, func, <<>>}

TokenSeqs == UNION {[1..n -> Tokens] : n \in 1..MaxTokens}

TagDirectives == {"py:method", "py:function", "py:class"}

\* a call of _get_module_tag(".".join(tokens), directive) about to be made
InitTag ==
  /\ APPLICATION = NoApp
  /\ memo = NoMemo
  /\ reads = 0
  /\ seen = {}
  /\ \E tokens \in TokenSeqs, directive \in TagDirectives :
       ret = [fn |-> "_get_module_tag", at |-> "call", tokens |-> tokens,
              namespace |-> Join(tokens, "."), directive |-> directive,
              res |-> Return(<<>>)]

GetModuleTag ==
  /\ ret.at = "call"
  /\ ret' = [ret EXCEPT !.at = "done",
                        !.res = Return(_get_module_tag(ret.namespace,
                                                       ret.directive))]
  /\ UNCHANGED <<APPLICATION, memo, reads, seen>>

NextTag == GetModuleTag

SpecTag == InitTag /\ [][NextTag]_vars

(* ------------------------------------ _get_source_code called on its own *)
PagePath == MODULES_DIR \o Join(<<pkg, mod>>, "/") \o HTML_EXT

Uris ==
  {ModuleUrl(LocalRoot, PagePath), ModuleUrl(WebRoot, PagePath), PagePath}

Ids == {ClsMeth, func, <<"x">>}

\* here the file system and the network answer independently
FetchWorlds ==
  [isfile : BOOLEAN, net : {"ok"} \cup NetFailures, page : PageNames]

\* a call of _get_source_code(uri, tag) about to be made
InitFetch ==
  /\ APPLICATION = NoApp
  /\ memo = NoMemo
  /\ reads = 0
  /\ seen = {}
  /\ \E uri \in Uris, tag \in Ids, world \in FetchWorlds :
       ret = [fn |-> "_get_source_code", at |-> "call", uri |-> uri,
              tag |-> tag, world |-> world, res |-> Return(<<>>)]

GetSourceCodeOfPage ==
  /\ ret.at = "call"
  /\ ret' = [ret EXCEPT !.at = "done",
                        !.res = _get_source_code(ret.uri, ret.tag, ret.world)]
  /\ UNCHANGED <<APPLICATION, memo, reads, seen>>

NextFetch == GetSourceCodeOfPage

SpecFetch == InitFetch /\ [][NextFetch]_vars
(* ================================================================ claims *)
Min(a, b) == IF a <= b THEN a ELSE b

\* a call of get_source_code has just ended
IsCall == ret.fn = "get_source_code"

Raised(exc) == ret.res.outcome = "raise" /\ ret.res.exc = exc

\* the inventory the call read (the application is not reassigned mid-call)
HasInventory == APPLICATION.present /\ APPLICATION.hasInventory

\* the positions of "#" in a str
Hashes(str) == {i \in 1..Len(str) : str[i] = "#"}

\* a sequence of str is strictly ascending
Ascending(seq) ==
  \A i, j \in 1..Len(seq) : i < j => StrLess(seq[i], seq[j])

(* ------------------------------------------------------------------- C1 *)
LookupAgrees ==
  LET inv == APPLICATION.inventory
      d == ret.directive
      n == ret.namespace
  IN  /\ d \notin DOMAIN inv => Raised("MissingDirective")
      /\ (d \in DOMAIN inv /\ n \notin DOMAIN inv[d]) =>
           Raised("MissingNamespace")
      /\ (d \in DOMAIN inv /\ n \in DOMAIN inv[d]) =>
           /\ ret.trace.hasUri
           /\ ret.trace.uri = inv[d][n][3]
           /\ ~Raised("MissingDirective")
           /\ ~Raised("MissingNamespace")

\* C1 as stated: for every inventory, a present (directive, namespace) pair
\* hands on the third field of its tuple, a directive without entry fails
\* with MissingDirective, an absent namespace under a known directive fails
\* with MissingNamespace.
C1_EveryInventory == (IsCall /\ HasInventory) => LookupAgrees

\* C1: the same for every inventory that is not empty (the empty inventory
\* counts as no inventory and fails with RuntimeError).
C1_Lookup ==
  (IsCall /\ HasInventory /\ DOMAIN APPLICATION.inventory # {}) => LookupAgrees

C1_Witness ==
  /\ IsCall
  /\ HasInventory
  /\ ret.directive \in DOMAIN APPLICATION.inventory
  /\ ret.namespace \in DOMAIN APPLICATION.inventory[ret.directive]
  /\ ret.trace.hasUri

(* ------------------------------------------------------------------- C2 *)
IsConfigurationError(res) ==
  /\ res.outcome = "raise"
  /\ \/ res.exc = "RuntimeError" /\ res.msg = NO_APPLICATION
     \/ res.exc = "EnvironmentError" /\ res.msg = NOT_CONFIGURED

\* C2: with no application registered, or an application without the
\* intersphinx inventory attribute, get_source_code fails with the
\* configuration error and has looked up neither directive nor namespace.
C2_Unavailable ==
  (IsCall /\ ~HasInventory) =>
    /\ IsConfigurationError(ret.res)
    /\ ret.trace.lookups = 0
    /\ ~ret.trace.hasUri

C2_Witness ==
  /\ IsCall
  /\ APPLICATION.present
  /\ ~APPLICATION.hasInventory
  /\ ret.directive = "py:method"
  /\ ret.namespace = "pkg.mod.Cls.meth"

(* ------------------------------------------------------------------- C3 *)
RootNotFound ==
  /\ Raised("EnvironmentError")
  /\ ret.res.msg = URL_NOT_IN_PROJECTS

RootAgrees ==
  LET RootSet == Range(ret.trace.roots)
      base == ret.trace.url
  IN  IF \E r \in RootSet : StartsWith(base, r)
      THEN /\ ~RootNotFound
           /\ ret.trace.built
           /\ ret.trace.root \in RootSet
           /\ StartsWith(base, ret.trace.root)
      ELSE /\ RootNotFound
           /\ Range(ret.res.payload) = RootSet
           /\ Len(ret.res.payload) = Cardinality(RootSet)
           /\ Ascending(ret.res.payload)

\* C3: for every RootSet, a member that is a prefix of the base makes root
\* resolution succeed with such a member; no such member fails with the
\* root-not-found error listing every member in sorted order.
C3_EveryRootSet == (IsCall /\ ret.trace.resolved) => RootAgrees

\* where C3 does hold: every RootSet without the empty string
C3_NonEmptyRoots ==
  (IsCall /\ ret.trace.resolved /\ <<>> \notin Range(ret.trace.roots)) =>
    RootAgrees

(* ------------------------------------------------------------------- C4 *)
\* the roots built by the call that has just ended, if it built them
BuiltRoots == Range(memo.value)

\* C4 as stated: the RootSet holds, for every mapping item, the value when
\* the value is a str and its first element otherwise, and nothing else.
C4_ValueIsRoot ==
  ret.trace.computed =>
    BuiltRoots = {IF item.isStr THEN item.str ELSE item.seq[1] :
                    item \in ret.trace.config}

\* C4: the RootSet holds, for every mapping item, the key when the value is
\* a str and the first element of the value otherwise, and nothing else.
C4_Roots ==
  ret.trace.computed =>
    BuiltRoots = {IF item.isStr THEN item.key ELSE item.seq[1] :
                    item \in ret.trace.config}

C4_Witness ==
  /\ ret.trace.computed
  /\ \E item \in ret.trace.config : item.isStr
  /\ \E item \in ret.trace.config : ~item.isStr

(* ------------------------------------------------------------------- C5 *)
\* C5: the configuration is read at most once; once the RootSet is cached,
\* no step changes the cache or reads the configuration again; every
\* resolution uses the cached RootSet; and no url is ever resolved to two
\* different roots.
C5_ComputedOnce ==
  /\ [](reads <= 1)
  /\ [][memo.set => (memo' = memo /\ reads' = reads)]_vars
  /\ []((IsCall /\ ret.trace.resolved) =>
          (memo.set /\ ret.trace.roots = memo.value))
  /\ [](\A p, q \in seen : p[1] = q[1] => p[2] = q[2])

\* a call resolves against the cached roots after the configuration changed
C5_Witness ==
  /\ IsCall
  /\ ret.trace.resolved
  /\ ~ret.trace.computed
  /\ APPLICATION.hasMapping
  /\ {ItemRoot(item) : item \in APPLICATION.mapping} # Range(memo.value)
  /\ <<ret.trace.url, ret.trace.root>> \in seen

(* ------------------------------------------------------------------- C6 *)
\* C6: _get_module_tag gives "_modules/" + the leading tokens joined by "/"
\* + ".html" and the trailing tokens joined by "."; py:method has two
\* trailing tokens (as many as there are, if fewer), every other directive
\* has one.
C6_ModuleTag ==
  (ret.fn = "_get_module_tag" /\ ret.at = "done") =>
    LET ts == ret.tokens
        n == Len(ts)
        k == Min(IF ret.directive = "py:method" THEN 2 ELSE 1, n)
        leading == [i \in 1..(n - k) |-> ts[i]]
        trailing == [i \in 1..k |-> ts[n - k + i]]
    IN  /\ ret.res.outcome = "return"
        /\ ret.res.value[1] = MODULES_DIR \o Join(leading, "/") \o HTML_EXT
        /\ ret.res.value[2] = Join(trailing, ".")
        /\ (ret.directive = "py:method" /\ ts = <<pkg, mod, Cls, meth>>) =>
             ret.res.value =
               <<<<"_", "m", "o", "d", "u", "l", "e", "s", "/", "p", "k", "g",
                   "/", "m", "o", "d", ".", "h", "t", "m", "l">>,
                 <<"C", "l", "s", ".", "m", "e", "t", "h">>>>
        /\ (ret.directive = "py:function" /\ ts = <<pkg, mod, func>>) =>
             ret.res.value =
               <<<<"_", "m", "o", "d", "u", "l", "e", "s", "/", "p", "k", "g",
                   "/", "m", "o", "d", ".", "h", "t", "m", "l">>,
                 <<"f", "u", "n", "c">>>>

C6_Witness ==
  /\ ret.fn = "_get_module_tag"
  /\ ret.at = "done"
  /\ ret.directive = "py:method"
  /\ ret.tokens = <<pkg, mod, Cls, meth>>

(* ------------------------------------------------------------------- C7 *)
FetchDone == ret.fn = "_get_source_code" /\ ret.at = "done"

\* C7: an absolute path with no file there fails with NotFoundFile; any
\* other reference is read from the network, and whatever makes the read
\* fail, the call fails with NotFoundUrl; neither returns a value.
C7_NotFound ==
  FetchDone =>
    LET absolute == Len(ret.uri) > 0 /\ ret.uri[1] = "/"
    IN  /\ (absolute /\ ~ret.world.isfile) =>
             (Raised("NotFoundFile") /\ ret.res.payload = ret.uri)
        /\ (~absolute /\ ret.world.net # "ok") =>
             (Raised("NotFoundUrl") /\ ret.res.payload = ret.uri)
        /\ Raised("NotFoundFile") => (absolute /\ ~ret.world.isfile)
        /\ Raised("NotFoundUrl") => (~absolute /\ ret.world.net # "ok")

C7_Witness ==
  /\ FetchDone
  /\ Raised("NotFoundUrl")
  /\ ret.world.net = "status"
  /\ ret.world.isfile

(* ------------------------------------------------------------------- C8 *)
\* every back-link of a tree, at any depth
RECURSIVE BackLinks(_)
BackLinks(nodes) ==
  IF nodes = <<>> THEN {}
  ELSE (IF IsBackLink(Head(nodes)) THEN {Head(nodes)} ELSE {})
         \cup BackLinks(Head(nodes).kids) \cup BackLinks(Tail(nodes))

\* sub occurs in str
Occurs(sub, str) ==
  \E i \in 0..(Len(str) - Len(sub)) : SubSeq(str, i + 1, i + Len(sub)) = sub

\* C8: the text returned holds the text of no back-link of the page, also
\* of none inside the target; a target that is itself inside a back-link
\* is gone before it is looked for; the example page gives exactly "code".
C8_BackLinks ==
  (FetchDone /\ ret.res.outcome = "return") =>
    /\ \A link \in BackLinks(Document(ret.world.page)) :
         ~Occurs(GetText(link), ret.res.value)
    /\ (ret.world.page = "example" /\ ret.tag = ClsMeth) =>
         ret.res.value = <<"c", "o", "d", "e">>

C8_Witness ==
  /\ FetchDone
  /\ ret.res.outcome = "return"
  /\ ret.world.page = "nested"
  /\ ret.res.value = <<"c", "o", "d", "e">>

(* ------------------------------------------------------------------- C9 *)
\* every node of a tree, at any depth
RECURSIVE Nodes(_)
Nodes(nodes) ==
  IF nodes = <<>> THEN {}
  ELSE {Head(nodes)} \cup Nodes(Head(nodes).kids) \cup Nodes(Tail(nodes))

\* the elements of the page read whose id is the one looked for
Targets ==
  {n \in Nodes(Document(ret.trace.world.page)) :
     n.type = "tag" /\ n.hasId /\ n.id = ret.trace.tag}

\* C9: a call of get_source_code ends in an exception or returns the text
\* of an element of the page it read whose id is the computed anchor; it
\* returns nothing when the page has no such element or was never read.
C9_NoBlank ==
  IsCall =>
    /\ ret.res.outcome \in {"return", "raise"}
    /\ ret.res.outcome = "raise" => ret.res.exc # ""
    /\ ret.res.outcome = "return" =>
         /\ ret.trace.fetched
         /\ ret.trace.world.page \in PageNames
         /\ \E n \in Targets : ret.res.value = GetTextAll(Decompose(<<n>>))
    /\ (ret.trace.fetched /\ ret.trace.world.page \in PageNames
          /\ Targets = {}) => ret.res.outcome = "raise"

C9_Witness ==
  /\ IsCall
  /\ ret.trace.fetched
  /\ ret.trace.world.page = "absent"
  /\ ret.res.outcome = "raise"

(* ------------------------------------------------------------------ C10 *)
SplitAtFirstHash ==
  LET uri == ret.trace.uri
      first == CHOOSE i \in Hashes(uri) : \A j \in Hashes(uri) : i <= j
  IN  /\ ret.trace.split
      /\ ret.trace.url = SubSeq(uri, 1, first - 1)
      /\ ret.trace.anchor = SubSeq(uri, first + 1, Len(uri))
      /\ ret.trace.built =>
           ret.trace.tag = _get_module_tag(ret.trace.anchor, ret.directive)[2]

\* C10 as stated: every uri with at least one "#" is cut at its first "#"
\* into the base for root resolution and the anchor for the tag builder.
C10_AnyHashes ==
  (IsCall /\ ret.trace.hasUri /\ Hashes(ret.trace.uri) # {}) =>
    SplitAtFirstHash

\* C10: every uri with exactly one "#" is cut at it into the base and the
\* anchor; a uri with more than one "#" fails with ValueError and nothing
\* is handed on.
C10_Split ==
  (IsCall /\ ret.trace.hasUri) =>
    /\ Cardinality(Hashes(ret.trace.uri)) = 1 => SplitAtFirstHash
    /\ Cardinality(Hashes(ret.trace.uri)) > 1 =>
         (Raised("ValueError") /\ ~ret.trace.split)

C10_Witness ==
  /\ IsCall
  /\ ret.trace.split
  /\ Cardinality(Hashes(ret.trace.uri)) = 1
  /\ ret.trace.resolved
====
